---- MODULE Spec2Model ----
(***************************************************************************)
(* A model of lzjd-rs: the two sketch builders of LZDict, the similarity   *)
(* engine, the base64 persistence of a sketch, the conversion from a       *)
(* vector, and the parallel batch comparator, the batch hasher and the     *)
(* digest file reader of the command line tool.                            *)
(*                                                                         *)
(* Each component has its own specification (SpecBuild, SpecSim, SpecSer,  *)
(* SpecCompare, SpecHashFiles, SpecRead, SpecFrom); the variables of the   *)
(* other components are held at their idle values.                         *)
(***************************************************************************)
EXTENDS Integers, Sequences, FiniteSets, Bags

VARIABLES
    \* ---- sketch builders (lz_dict.rs, from_bytes_stream*, one call) ----
    bAlgo,      \* "lz78" | "stream": which builder is running
    bStream,    \* seq_iter: the byte iterator handed to the builder
    bHk,        \* build_hasher: the hasher factory
    bPc,        \* "parse" | "hash" | "scan" | "done" | "dist": position in the builder
    pos,        \* number of bytes already taken from seq_iter
    dict,       \* lz78: Vec<(usize, u8)>, the phrase table (index 0 is the root)
    last_matching_index, \* lz78: usize
    hidx,       \* lz78: loop variable i of `for i in 1..dict.len()`
    hashes,     \* lz78: Vec<i64>, the working sketch
    hset,       \* stream: HashSet<i64>
    hasher,     \* stream: the live hasher
    entries,    \* the returned LZDict's entries
    bDist,      \* dist of the returned sketch to a second build of the same stream
    \* ---- similarity engine (lz_dict.rs, one pair of sketches) ----
    sA, sB,     \* the two LZDicts' entries
    sPc,        \* "init" | "sim" | "done"
    sInter,     \* a.intersection_len(b)
    sSim,       \* a.similarity(b)
    sDistAB,    \* a.dist(b)
    sDistBA,    \* b.dist(a)
    \* ---- persistence (lz_dict.rs, to_string / from_base64_string) ----
    zOrigin,    \* "dict": the text is d.to_string(); "text": a text read from a file
    zDict,      \* the entries of the LZDict that is written
    zText,      \* the base64 text, a sequence of ASCII codes
    zPc,        \* "dict" | "text" | "done"
    zResult,    \* the Result<LZDict> of from_base64_string
    \* ---- batch comparator (main.rs, compare) ----
    cA, cB,     \* dicts_a, dicts_b: sequences of (LZDict, String) records
    cAllocB,    \* the allocation behind dicts_b: "A" when it is Rc::clone(&hashes_a)
    cThreshold, \* threshold
    cSegs,      \* the pieces the parallel iterator over dicts_a is split into
    cEvaluated, \* history: the index pairs (i, j) handed to similarity, in a bag
    cPc,        \* "run" | "done"
    cOut,       \* what was written to the writer
    \* ---- batch hasher (main.rs, hash_files) ----
    hPaths,     \* paths: the input files
    hWriter,    \* whether a writer was passed (Some) or not (None)
    hSegs,      \* the pieces the parallel iterator over paths is split into
    hPc,        \* "run" | "done"
    hResult,    \* the Result<Vec<(LZDict, String)>> returned
    hOut,       \* what was written to the writer
    \* ---- digest file reader (main.rs, read_hashes_from_file) ----
    rOpens,     \* whether File::open(path) succeeds
    rLines,     \* the lines of the file, each a sequence of byte values
    rIdx,       \* number of lines already folded
    rV,         \* the accumulator v of try_fold: (LZDict, String) records
    rPc,        \* "open" | "fold" | "done"
    rResult,    \* the Result<Vec<(LZDict, String)>> returned
    \* ---- conversion (lz_dict.rs, impl From<Vec<i64>> for LZDict) ----
    fInput,     \* the Vec<i64> handed to LZDict::from
    fPc,        \* "call" | "done"
    fEntries    \* the entries of the LZDict returned

bvars == <<bAlgo, bStream, bHk, bPc, pos, dict, last_matching_index, hidx,
           hashes, hset, hasher, entries, bDist>>

svars == <<sA, sB, sPc, sInter, sSim, sDistAB, sDistBA>>

zvars == <<zOrigin, zDict, zText, zPc, zResult>>

cvars == <<cA, cB, cAllocB, cThreshold, cSegs, cEvaluated, cPc, cOut>>

hvars == <<hPaths, hWriter, hSegs, hPc, hResult, hOut>>

rvars == <<rOpens, rLines, rIdx, rV, rPc, rResult>>

fvars == <<fInput, fPc, fEntries>>

vars == <<bvars, svars, zvars, cvars, hvars, rvars, fvars>>

\* the variables of the other components
notB == <<svars, zvars, cvars, hvars, rvars, fvars>>
notS == <<bvars, zvars, cvars, hvars, rvars, fvars>>
notZ == <<bvars, svars, cvars, hvars, rvars, fvars>>
notC == <<bvars, svars, zvars, hvars, rvars, fvars>>
notH == <<bvars, svars, zvars, cvars, rvars, fvars>>
notR == <<bvars, svars, zvars, cvars, hvars, fvars>>
notF == <<bvars, svars, zvars, cvars, hvars, rvars>>

-----------------------------------------------------------------------------
(* Bounds of the model *)

\* width in bits of the model hashers' digest word
HashBits == 14
\* longest byte stream drawn exhaustively over ByteSample
MaxStreamLen == 4
\* length of a generated long stream
LongLen == 2300

(* Program constants *)

\* hashes.len() < 1024 in from_bytes_stream_lz78
SketchCap == 1024
\* take(1000) in from_bytes_stream
StreamTake == 1000
\* size of a bincode-serialized u64 / i64
WordBytes == 8

-----------------------------------------------------------------------------
(* Integer helpers *)

RECURSIVE Pow2(_)
Pow2(n) == IF n = 0 THEN 1 ELSE 2 * Pow2(n - 1)

Min(a, b) == IF a <= b THEN a ELSE b

Reverse(s) == [k \in 1..Len(s) |-> s[Len(s) + 1 - k]]

-----------------------------------------------------------------------------
(* Byte streams: an Iterator<Item = u8>.  A stream is either a literal     *)
(* byte sequence (seed = 0) or a generated one of `len` bytes.             *)

ByteSample == {0, 1, 2, 255}

RECURSIVE SeqsUpTo(_, _)
SeqsUpTo(S, n) ==
    IF n = 0 THEN {<<>>}
    ELSE LET shorter == SeqsUpTo(S, n - 1)
         IN  shorter \cup {Append(s, x) : s \in {t \in shorter : Len(t) = n - 1}, x \in S}

LitStream(bytes) == [seed |-> 0, len |-> Len(bytes), bytes |-> bytes]
GenStream(seed) == [seed |-> seed, len |-> LongLen, bytes |-> <<>>]

\* the seeds of the generated streams
LongSeeds == {1}

GenByte(seed, p) == ((p * p * seed + p * 7) \div 5) % 256

StreamLen(s) == s.len
\* the p-th item the iterator yields, p = 1..len
StreamAt(s, p) == IF s.seed = 0 THEN s.bytes[p] ELSE GenByte(s.seed, p)

Streams ==
    {LitStream(b) : b \in SeqsUpTo(ByteSample, MaxStreamLen)}
        \cup {GenStream(k) : k \in LongSeeds}

-----------------------------------------------------------------------------
(* Hashers: core::hash::Hasher / BuildHasher.  The digest of the wrapped   *)
(* crate is modelled by a HashBits-wide polynomial word.                   *)
(*   "crc"  : finish() = u64::from(u32), never has the top bit set         *)
(*   "wide" : a 64-bit digest whose top bits may be set                    *)
(*   "weak" : a hasher with very few distinct digests                      *)

HasherKinds == {"crc", "wide", "weak"}

\* build_hasher(): a fresh hasher
NewHasher(kind) == [kind |-> kind, w |-> 0]

\* hasher.write_u8(b)
WriteU8(h, b) ==
    IF h.kind = "weak" THEN [h EXCEPT !.w = (h.w + b) % 2]
    ELSE [h EXCEPT !.w = (h.w * 33 + b + 1) % Pow2(HashBits)]

\* the n low base-256 digits of v (two's complement for v < 0), least
\* significant first
RECURSIVE LEBytes(_, _)
LEBytes(v, n) == IF n = 0 THEN <<>> ELSE <<v % 256>> \o LEBytes(v \div 256, n - 1)

\* hasher.finish(): a u64, written as its 8 base-256 digits, most
\* significant first
Finish(h) ==
    IF h.kind = "wide" /\ h.w >= Pow2(HashBits - 1)
    THEN Reverse(LEBytes(h.w - Pow2(HashBits), WordBytes))
    ELSE Reverse(LEBytes(h.w, WordBytes))

\* bincode::serialize(&u64): fixed width, little endian
SerializeU64(u) == Reverse(u)

\* a serializer that writes the magnitude and loses the sign
SerializeI64Unsigned(v) == LEBytes(IF v < 0 THEN 0 - v ELSE v, WordBytes)

\* bincode::serialize(&i64): fixed width, little endian, two's complement
SerializeI64(v) == LEBytes(v, WordBytes)

\* a byte read as the most significant byte of a two's complement number
SignedByte(x) == IF x >= 128 THEN x - 256 ELSE x

\* acc * 256^n + the value of the little endian digits b[1..n]
RECURSIVE Horner(_, _, _)
Horner(b, n, acc) == IF n = 0 THEN acc ELSE Horner(b, n - 1, acc * 256 + b[n])

\* bincode::deserialize::<i64>(bytes), bytes.len() = 8
DeserializeI64(b) == Horner(b, Len(b) - 1, SignedByte(b[Len(b)]))

\* let hash_i64: i64 = deserialize(serialize(&hasher.finish()))
HashI64(h) == DeserializeI64(SerializeU64(Finish(h)))

-----------------------------------------------------------------------------
(* The bounded sorted sketch *)

StrictlyAscending(s) == \A k \in 1..(Len(s) - 1) : s[k] < s[k + 1]

Contains(s, x) == \E k \in 1..Len(s) : s[k] = x

\* slice::binary_search on an ascending slice: Err(insert_at) when x is
\* absent, insert_at = number of elements smaller than x
InsertAt(s, x) == Cardinality({k \in 1..Len(s) : s[k] < x})

\* Vec::insert(at, x), at 0-based
VecInsert(s, at, x) == SubSeq(s, 1, at) \o <<x>> \o SubSeq(s, at + 1, Len(s))

\* Vec::pop()
VecPop(s) == SubSeq(s, 1, Len(s) - 1)

\* a sketch update that ignores the outcome of the binary search
SketchInsertNoSearch(hs, x) ==
    IF Len(hs) < SketchCap THEN Append(hs, x) ELSE hs

\* lz_dict.rs 69-77: the insert / evict / discard of one hash
SketchInsert(hs, x) ==
    IF Contains(hs, x) THEN hs
    ELSE IF Len(hs) < SketchCap THEN VecInsert(hs, InsertAt(hs, x), x)
    ELSE IF x < hs[Len(hs)] THEN VecInsert(VecPop(hs), InsertAt(hs, x), x)
    ELSE hs

-----------------------------------------------------------------------------
(* from_bytes_stream_lz78 *)

Root == <<0, 0>>

\* dict.iter().position(|(lmi, i)| lmi == &last_matching_index && i == &item):
\* the first 0-based index that matches, -1 for None
Position(d, lmi, item) ==
    LET hits == {k \in 1..Len(d) : d[k] = <<lmi, item>>}
    IN  IF hits = {} THEN -1
        ELSE (CHOOSE k \in hits : \A j \in hits : k <= j) - 1

\* hash_entry: feeds the phrase's bytes, root to leaf, into the hasher
RECURSIVE hash_entry(_, _, _)
hash_entry(index, d, h) ==
    IF index = 0 THEN h
    ELSE WriteU8(hash_entry(d[index + 1][1], d, h), d[index + 1][2])

\* the body of `for item in seq_iter` (lines 49-56) on the pair
\* (dict, last_matching_index)
Lz78Step(d, lmi, item) ==
    LET index == Position(d, lmi, item)
    IN  IF index >= 0
        THEN [dict |-> d, lmi |-> index]
        ELSE [dict |-> Append(d, <<lmi, item>>), lmi |-> 0]

\* the body of `for i in 1..dict.len()` (lines 63-77) on the working sketch
Lz78HashStep(hs, i, d, hk) == SketchInsert(hs, HashI64(hash_entry(i, d, NewHasher(hk))))

\* one iteration of `for item in seq_iter`
Lz78ParseByte ==
    /\ bAlgo = "lz78" /\ bPc = "parse" /\ pos < StreamLen(bStream)
    /\ LET st == Lz78Step(dict, last_matching_index, StreamAt(bStream, pos + 1))
       IN  /\ dict' = st.dict
           /\ last_matching_index' = st.lmi
    /\ pos' = pos + 1
    /\ UNCHANGED <<bAlgo, bStream, bHk, bPc, hidx, hashes, hset, hasher, entries, bDist>>
    /\ UNCHANGED notB

\* the iterator is exhausted: lines 59-60
Lz78StartHashing ==
    /\ bAlgo = "lz78" /\ bPc = "parse" /\ pos = StreamLen(bStream)
    /\ bPc' = "hash"
    /\ hashes' = <<>>
    /\ hidx' = 1
    /\ UNCHANGED <<bAlgo, bStream, bHk, pos, dict, last_matching_index, hset, hasher,
                   entries, bDist>>
    /\ UNCHANGED notB

\* one iteration of `for i in 1..dict.len()`
Lz78HashPhrase ==
    /\ bAlgo = "lz78" /\ bPc = "hash" /\ hidx < Len(dict)
    /\ hashes' = Lz78HashStep(hashes, hidx, dict, bHk)
    /\ hidx' = hidx + 1
    /\ UNCHANGED <<bAlgo, bStream, bHk, bPc, pos, dict, last_matching_index, hset, hasher,
                   entries, bDist>>
    /\ UNCHANGED notB

\* LZDict { entries: hashes }
Lz78Return ==
    /\ bAlgo = "lz78" /\ bPc = "hash" /\ hidx >= Len(dict)
    /\ entries' = hashes
    /\ bPc' = "done"
    /\ UNCHANGED <<bAlgo, bStream, bHk, pos, dict, last_matching_index, hidx, hashes, hset,
                   hasher, bDist>>
    /\ UNCHANGED notB

-----------------------------------------------------------------------------
(* from_bytes_stream *)

\* the values of S in ascending order (collect + sort)
SortSet(S) ==
    IF S = {} THEN <<>>
    ELSE LET lo == CHOOSE x \in S : \A y \in S : x <= y
             hi == CHOOSE x \in S : \A y \in S : x >= y
         IN  SelectSeq([k \in 1..(hi - lo + 1) |-> lo + k - 1], LAMBDA v : v \in S)

\* iter().take(n)
Take(s, n) == SubSeq(s, 1, Min(n, Len(s)))

\* the body of `for byte in seq_iter` (lines 101-107) on the pair
\* (dict, hasher); HashSet::insert returns true when the value was absent
StreamStep(set, h, byte, hk) ==
    LET h2 == WriteU8(h, byte)
        hash_i64 == HashI64(h2)
    IN  IF hash_i64 \notin set
        THEN [set |-> set \cup {hash_i64}, hasher |-> NewHasher(hk)]
        ELSE [set |-> set, hasher |-> h2]

\* lines 110-113: collect, sort, take(1000)
StreamFinish(set) == Take(SortSet(set), StreamTake)

\* one iteration of `for byte in seq_iter`
StreamByte ==
    /\ bAlgo = "stream" /\ bPc = "scan" /\ pos < StreamLen(bStream)
    /\ LET st == StreamStep(hset, hasher, StreamAt(bStream, pos + 1), bHk)
       IN  /\ hset' = st.set
           /\ hasher' = st.hasher
    /\ pos' = pos + 1
    /\ UNCHANGED <<bAlgo, bStream, bHk, bPc, dict, last_matching_index, hidx, hashes,
                   entries, bDist>>
    /\ UNCHANGED notB

\* lines 110-113: collect, sort, take(1000)
StreamReturn ==
    /\ bAlgo = "stream" /\ bPc = "scan" /\ pos = StreamLen(bStream)
    /\ entries' = StreamFinish(hset)
    /\ bPc' = "done"
    /\ UNCHANGED <<bAlgo, bStream, bHk, pos, dict, last_matching_index, hidx, hashes, hset,
                   hasher, bDist>>
    /\ UNCHANGED notB

-----------------------------------------------------------------------------
(* The builders as functions of a literal stream: the loops above, run to   *)
(* completion.                                                             *)

RECURSIVE Lz78Parse(_, _, _, _)
Lz78Parse(s, p, d, lmi) ==
    IF p >= StreamLen(s) THEN d
    ELSE LET st == Lz78Step(d, lmi, StreamAt(s, p + 1))
         IN  Lz78Parse(s, p + 1, st.dict, st.lmi)

RECURSIVE Lz78Hashes(_, _, _, _)
Lz78Hashes(d, i, hs, hk) ==
    IF i >= Len(d) THEN hs
    ELSE Lz78Hashes(d, i + 1, Lz78HashStep(hs, i, d, hk), hk)

from_bytes_stream_lz78(s, hk) == Lz78Hashes(Lz78Parse(s, 0, <<Root>>, 0), 1, <<>>, hk)

RECURSIVE StreamScan(_, _, _, _, _)
StreamScan(s, p, set, h, hk) ==
    IF p >= StreamLen(s) THEN set
    ELSE LET st == StreamStep(set, h, StreamAt(s, p + 1), hk)
         IN  StreamScan(s, p + 1, st.set, st.hasher, hk)

from_bytes_stream(s, hk) == StreamFinish(StreamScan(s, 0, {}, NewHasher(hk), hk))

-----------------------------------------------------------------------------
(* The similarity engine.  An f64 is modelled by the exact ratio it rounds *)
(* (sketch lengths are far below 2^26, so two ratios round to the same f64 *)
(* only when they are equal), or NaN.                                      *)

RECURSIVE Gcd(_, _)
Gcd(a, b) == IF b = 0 THEN a ELSE Gcd(b, a % b)

NaN == [nan |-> TRUE, num |-> 0, den |-> 0]
Ratio(n, d) == [nan |-> FALSE, num |-> n \div Gcd(n, d), den |-> d \div Gcd(n, d)]
Zero == Ratio(0, 1)
One == Ratio(1, 1)

\* n as f64 / d as f64 for n <= d: 0.0 / 0.0 is NaN
FDiv(n, d) == IF d = 0 THEN NaN ELSE Ratio(n, d)

\* 1.0 - x
OneMinus(x) == IF x.nan THEN NaN ELSE Ratio(x.den - x.num, x.den)

\* the == of f64: NaN equals nothing, not even itself
FloatEq(x, y) == ~x.nan /\ ~y.nan /\ x.num * y.den = y.num * x.den

\* a merge that counts every step on which self_entry <= other_entry
RECURSIVE MergeCountLe(_, _, _, _, _)
MergeCountLe(a, b, i, j, len) ==
    IF ~(i < Len(a) /\ j < Len(b)) THEN len
    ELSE LET self_entry == a[i + 1]
             other_entry == b[j + 1]
         IN  MergeCountLe(a, b,
                          IF self_entry <= other_entry THEN i + 1 ELSE i,
                          IF self_entry >= other_entry THEN j + 1 ELSE j,
                          IF self_entry <= other_entry THEN len + 1 ELSE len)

\* the while loop of intersection_len from the cursors (i, j) and count len
RECURSIVE Merge(_, _, _, _, _)
Merge(a, b, i, j, len) ==
    IF ~(i < Len(a) /\ j < Len(b)) THEN len
    ELSE LET self_entry == a[i + 1]
             other_entry == b[j + 1]
         IN  Merge(a, b,
                   IF self_entry <= other_entry THEN i + 1 ELSE i,
                   IF self_entry >= other_entry THEN j + 1 ELSE j,
                   IF self_entry = other_entry THEN len + 1 ELSE len)

intersection_len(a, b) == Merge(a, b, 0, 0, 0)

jaccard_similarity(a, b) ==
    LET inter == intersection_len(a, b)
        union_len == Len(a) + Len(b) - inter
    IN  FDiv(inter, union_len)

similarity(a, b) == jaccard_similarity(a, b)

dist(a, b) == OneMinus(similarity(a, b))

-----------------------------------------------------------------------------
(* lib.rs 133-138: a second sketch of the same stream is built with the    *)
(* same factory and the distance of the two is taken.  The second build is *)
(* evaluated as a function, which is done for the literal streams only.    *)

Lz78SelfDist ==
    /\ bAlgo = "lz78" /\ bPc = "done" /\ bStream.seed = 0
    /\ bDist' = dist(entries, from_bytes_stream_lz78(bStream, bHk))
    /\ bPc' = "dist"
    /\ UNCHANGED <<bAlgo, bStream, bHk, pos, dict, last_matching_index, hidx, hashes, hset,
                   hasher, entries>>
    /\ UNCHANGED notB

IdleBuild ==
    /\ bAlgo = "none"
    /\ bStream = LitStream(<<>>)
    /\ bHk = "crc"
    /\ bPc = "idle"
    /\ pos = 0
    /\ dict = <<Root>>
    /\ last_matching_index = 0
    /\ hidx = 0
    /\ hashes = <<>>
    /\ hset = {}
    /\ hasher = NewHasher("crc")
    /\ entries = <<>>
    /\ bDist = NaN

BuildStart ==
    /\ bAlgo \in {"lz78", "stream"}
    /\ bStream \in Streams
    /\ bHk \in HasherKinds
    /\ (bStream.seed # 0 => bHk # "weak")
    /\ bPc = IF bAlgo = "lz78" THEN "parse" ELSE "scan"
    /\ pos = 0
    /\ dict = <<Root>>
    /\ last_matching_index = 0
    /\ hidx = 0
    /\ hashes = <<>>
    /\ hset = {}
    /\ hasher = NewHasher(bHk)
    /\ entries = <<>>
    /\ bDist = NaN

BuildNext ==
    \/ Lz78ParseByte
    \/ Lz78StartHashing
    \/ Lz78HashPhrase
    \/ Lz78Return
    \/ Lz78SelfDist
    \/ StreamByte
    \/ StreamReturn

-----------------------------------------------------------------------------
(* One pair of sketches through the similarity engine.  The sketches are   *)
(* any i64 sequences: from_base64_string builds an LZDict from whatever    *)
(* the payload holds.                                                      *)

\* longest sketch of the similarity specification
MaxSketchLen == 3

SimVals == {-1, 0, 1, 2}

SimSketches == SeqsUpTo(SimVals, MaxSketchLen)

IdleSim ==
    /\ sA = <<>> /\ sB = <<>>
    /\ sPc = "idle"
    /\ sInter = 0
    /\ sSim = NaN /\ sDistAB = NaN /\ sDistBA = NaN

SimStart ==
    /\ sA \in SimSketches /\ sB \in SimSketches
    /\ sPc = "init"
    /\ sInter = 0
    /\ sSim = NaN /\ sDistAB = NaN /\ sDistBA = NaN

\* a.similarity(&b)
Similarity ==
    /\ sPc = "init"
    /\ sInter' = intersection_len(sA, sB)
    /\ sSim' = similarity(sA, sB)
    /\ sPc' = "sim"
    /\ UNCHANGED <<sA, sB, sDistAB, sDistBA>>
    /\ UNCHANGED notS

\* lib.rs 157: a.dist(&b) and b.dist(&a)
Dist ==
    /\ sPc = "sim"
    /\ sDistAB' = dist(sA, sB)
    /\ sDistBA' = dist(sB, sA)
    /\ sPc' = "done"
    /\ UNCHANGED <<sA, sB, sInter, sSim>>
    /\ UNCHANGED notS

SimNext ==
    \/ Similarity
    \/ Dist

-----------------------------------------------------------------------------
(* Persistence: to_string and from_base64_string.  A text is a sequence of *)
(* ASCII codes; base64 is the standard alphabet with '=' padding.          *)

\* the ASCII code of the base64 symbol of a 6-bit value
B64Char(v) ==
    IF v < 26 THEN 65 + v
    ELSE IF v < 52 THEN 97 + (v - 26)
    ELSE IF v < 62 THEN 48 + (v - 52)
    ELSE IF v = 62 THEN 43 ELSE 47

\* the 6-bit value of an ASCII code, -1 when it is no base64 symbol
B64Value(c) ==
    IF c >= 65 /\ c <= 90 THEN c - 65
    ELSE IF c >= 97 /\ c <= 122 THEN c - 97 + 26
    ELSE IF c >= 48 /\ c <= 57 THEN c - 48 + 52
    ELSE IF c = 43 THEN 62
    ELSE IF c = 47 THEN 63 ELSE -1

Pad == 61

\* base64::encode(&bytes)
RECURSIVE B64Encode(_)
B64Encode(b) ==
    IF Len(b) = 0 THEN <<>>
    ELSE IF Len(b) = 1
    THEN <<B64Char(b[1] \div 4), B64Char((b[1] % 4) * 16), Pad, Pad>>
    ELSE IF Len(b) = 2
    THEN <<B64Char(b[1] \div 4), B64Char((b[1] % 4) * 16 + b[2] \div 16),
           B64Char((b[2] % 16) * 4), Pad>>
    ELSE <<B64Char(b[1] \div 4), B64Char((b[1] % 4) * 16 + b[2] \div 16),
           B64Char((b[2] % 16) * 4 + b[3] \div 64), B64Char(b[3] % 64)>>
         \o B64Encode(SubSeq(b, 4, Len(b)))

\* the bytes of a sequence of 6-bit values
RECURSIVE SextetsToBytes(_)
SextetsToBytes(v) ==
    IF Len(v) < 2 THEN <<>>
    ELSE IF Len(v) = 2 THEN <<v[1] * 4 + v[2] \div 16>>
    ELSE IF Len(v) = 3 THEN <<v[1] * 4 + v[2] \div 16, (v[2] % 16) * 16 + v[3] \div 4>>
    ELSE <<v[1] * 4 + v[2] \div 16, (v[2] % 16) * 16 + v[3] \div 4, (v[3] % 4) * 64 + v[4]>>
         \o SextetsToBytes(SubSeq(v, 5, Len(v)))

\* the text without its trailing padding (at most two '=')
StripPad(text) ==
    LET n == Len(text)
    IN  IF n >= 2 /\ text[n] = Pad /\ text[n - 1] = Pad THEN SubSeq(text, 1, n - 2)
        ELSE IF n >= 1 /\ text[n] = Pad THEN SubSeq(text, 1, n - 1)
        ELSE text

\* base64::decode(b64): Err on a byte outside the alphabet or a length that
\* no encoding has
B64Decode(text) ==
    LET body == StripPad(text)
        vals == [k \in 1..Len(body) |-> B64Value(body[k])]
    IN  IF (\E k \in 1..Len(vals) : vals[k] < 0) \/ Len(body) % 4 = 1
        THEN [ok |-> FALSE, bytes |-> <<>>]
        ELSE [ok |-> TRUE, bytes |-> SextetsToBytes(vals)]

\* .map(|hash| bincode::serialize(&hash).unwrap()).flatten().collect()
RECURSIVE SerializeAll(_)
SerializeAll(es) ==
    IF Len(es) = 0 THEN <<>> ELSE SerializeI64(Head(es)) \o SerializeAll(Tail(es))

\* LZDict::to_string
to_string(es) == B64Encode(SerializeAll(es))

\* bytes.iter().cloned().skip(i * 8).take(8) collected, i 0-based
Chunk(bytes, i) ==
    SubSeq(bytes, i * WordBytes + 1, Min(i * WordBytes + WordBytes, Len(bytes)))

Ok(es) == [ok |-> TRUE, entries |-> es, err |-> "none"]
Err(kind) == [ok |-> FALSE, entries |-> <<>>, err |-> kind]

\* LZDict::from_base64_string
from_base64_string(b64) ==
    LET dec == B64Decode(b64)
    IN  IF ~dec.ok THEN Err("Base64")
        ELSE Ok([i \in 1..(Len(dec.bytes) \div WordBytes)
                    |-> DeserializeI64(Chunk(dec.bytes, i - 1))])

\* longest sketch of the persistence specification
MaxSerLen == 2
\* longest run of bytes that follows the last whole chunk of a payload
MaxTrailer == 2

SerVals == {-2, 0, 1, 300}

SerSketches == SeqsUpTo(SerVals, MaxSerLen)

Trailers == SeqsUpTo({3, 255}, MaxTrailer)

\* payloads as a file can hold them: whole chunks, then any trailing bytes
SerPayloads == {SerializeAll(d) \o tr : d \in SerSketches, tr \in Trailers}

\* '!' is no base64 symbol
SerTexts ==
    {B64Encode(pl) : pl \in SerPayloads} \cup {<<33>> \o B64Encode(pl) : pl \in SerPayloads}

IdleSer ==
    /\ zOrigin = "none"
    /\ zDict = <<>>
    /\ zText = <<>>
    /\ zPc = "idle"
    /\ zResult = Err("none")

SerStart ==
    /\ zOrigin \in {"dict", "text"}
    /\ zDict \in SerSketches
    /\ zText \in SerTexts
    /\ (zOrigin = "dict" => zText = <<>>)
    /\ (zOrigin = "text" => zDict = <<>>)
    /\ zPc = zOrigin
    /\ zResult = Err("none")

\* d.to_string()
DictToString ==
    /\ zPc = "dict"
    /\ zText' = to_string(zDict)
    /\ zPc' = "text"
    /\ UNCHANGED <<zOrigin, zDict, zResult>>
    /\ UNCHANGED notZ

\* LZDict::from_base64_string(text)
FromBase64String ==
    /\ zPc = "text"
    /\ zResult' = from_base64_string(zText)
    /\ zPc' = "done"
    /\ UNCHANGED <<zOrigin, zDict, zText>>
    /\ UNCHANGED notZ

SerNext ==
    \/ DictToString
    \/ FromBase64String

-----------------------------------------------------------------------------
(* The parallel iterator of rayon over a slice: the index range is split   *)
(* into contiguous pieces, a piece is split only before its first item is  *)
(* folded, each piece is folded in index order into a buffer of its own    *)
(* that starts as the identity, and the buffers of two adjacent finished   *)
(* pieces are reduced, the left one first.                                 *)
(* A piece: items lo..hi (1-based), next the next item to fold, v the      *)
(* buffer, err whether the fold failed, parts the number of pieces that    *)
(* were merged into it.                                                    *)

Piece(lo, hi) == [lo |-> lo, hi |-> hi, next |-> lo, v |-> <<>>, err |-> FALSE, parts |-> 1]

Unstarted(sg) == sg.next = sg.lo /\ sg.v = <<>> /\ ~sg.err
Complete(sg) == sg.next = sg.hi + 1

\* the pieces with piece k replaced by the sequence of pieces new
ReplacePiece(segs, k, n, new) == SubSeq(segs, 1, k - 1) \o new \o SubSeq(segs, k + n, Len(segs))

SplitPiece(segs, k, m) ==
    ReplacePiece(segs, k, 1, <<Piece(segs[k].lo, m), Piece(m + 1, segs[k].hi)>>)

-----------------------------------------------------------------------------
(* compare *)

\* longest dicts_a
MaxDigests == 3
\* longest dicts_b that is a collection of its own
MaxOther == 2

DigestSample ==
    { [dict |-> <<>>, name |-> "e"],
      [dict |-> <<1, 2>>, name |-> "x"],
      [dict |-> <<1>>, name |-> "y"] }

Thresholds == {0, 50, 51}

\* Vec::as_ptr: a Vec that never allocated points at the dangling address
VecPtr(v, alloc) == IF Len(v) = 0 THEN "dangling" ELSE alloc

\* let same = dicts_a as *const _ == dicts_b as *const _: address and length
Same == VecPtr(cA, "A") = VecPtr(cB, cAllocB) /\ Len(cA) = Len(cB)

\* (x * 100.).round() as u32: half away from zero; NaN casts to 0
RoundedPercent(x) == IF x.nan THEN 0 ELSE (200 * x.num + x.den) \div (2 * x.den)

\* a first column that includes the diagonal
JStartDiagonal(same, i) == IF same THEN i ELSE 1

\* let j_start = if same { i + 1 } else { 0 }: the first column (1-based)
\* of row i (1-based)
JStart(same, i) == IF same THEN i + 1 ELSE 1

\* the (name_a, name_b, similarity) computed for row i and column j
PairRecord(i, j) ==
    <<cA[i].name, cB[j].name, RoundedPercent(similarity(cA[i].dict, cB[j].dict))>>

\* the columns row i is compared with
RowColumns(i) == JStart(Same, i)..Len(cB)

\* the records the fold closure pushes for row i, in column order
RowRecords(i) ==
    LET cols == [n \in 1..Cardinality(RowColumns(i)) |-> JStart(Same, i) + n - 1]
        recs == [n \in 1..Len(cols) |-> PairRecord(i, cols[n])]
    IN  SelectSeq(recs, LAMBDA r : r[3] >= cThreshold)

\* a reduce that keeps the left buffer only
CompareReduceKeepLeft(v, r) == v

\* the reduce closure: v.append(&mut r); v
CompareReduceOp(v, r) == v \o r

CompareStart ==
    /\ cA \in SeqsUpTo(DigestSample, MaxDigests)
    /\ cAllocB \in {"A", "B"}
    /\ cB \in (IF cAllocB = "A" THEN {cA} ELSE SeqsUpTo(DigestSample, MaxOther))
    /\ cThreshold \in Thresholds
    /\ cSegs = <<Piece(1, Len(cA))>>
    /\ cEvaluated = EmptyBag
    /\ cPc = "run"
    /\ cOut = <<>>

\* par_iter(): a piece that has not started is split in two
CompareSplit ==
    /\ cPc = "run"
    /\ \E k \in 1..Len(cSegs) :
          /\ Unstarted(cSegs[k])
          /\ \E m \in cSegs[k].lo..(cSegs[k].hi - 1) : cSegs' = SplitPiece(cSegs, k, m)
    /\ UNCHANGED <<cA, cB, cAllocB, cThreshold, cEvaluated, cPc, cOut>>
    /\ UNCHANGED notC

\* the fold closure on the next row of a piece
CompareFold ==
    /\ cPc = "run"
    /\ \E k \in 1..Len(cSegs) :
          LET sg == cSegs[k]
              i == sg.next
          IN  /\ ~Complete(sg)
              /\ cSegs' = [cSegs EXCEPT ![k] =
                              [sg EXCEPT !.next = i + 1, !.v = sg.v \o RowRecords(i)]]
              /\ cEvaluated' = cEvaluated (+) SetToBag({<<i, j>> : j \in RowColumns(i)})
    /\ UNCHANGED <<cA, cB, cAllocB, cThreshold, cPc, cOut>>
    /\ UNCHANGED notC

\* the reduce closure on two adjacent finished pieces
CompareReduce ==
    /\ cPc = "run"
    /\ \E k \in 1..(Len(cSegs) - 1) :
          LET l == cSegs[k]
              r == cSegs[k + 1]
          IN  /\ Complete(l) /\ Complete(r)
              /\ cSegs' = ReplacePiece(cSegs, k, 2,
                              <<[lo |-> l.lo, hi |-> r.hi, next |-> r.hi + 1,
                                 v |-> CompareReduceOp(l.v, r.v), err |-> FALSE,
                                 parts |-> l.parts + r.parts]>>)
    /\ UNCHANGED <<cA, cB, cAllocB, cThreshold, cEvaluated, cPc, cOut>>
    /\ UNCHANGED notC

\* similarities is complete: one "{}|{}|{:03}\n" line per record is written
CompareWrite ==
    /\ cPc = "run"
    /\ Len(cSegs) = 1 /\ Complete(cSegs[1])
    /\ cOut' = cSegs[1].v
    /\ cPc' = "done"
    /\ UNCHANGED <<cA, cB, cAllocB, cThreshold, cSegs, cEvaluated>>
    /\ UNCHANGED notC

CompareNext ==
    \/ CompareSplit
    \/ CompareFold
    \/ CompareReduce
    \/ CompareWrite

-----------------------------------------------------------------------------
(* hash_files *)

\* longest list of paths
MaxPaths == 3

\* a path: its name, whether File::open succeeds, and the file's bytes
FileSample ==
    { [name |-> "a", ok |-> TRUE, bytes |-> <<1, 2>>],
      [name |-> "b", ok |-> TRUE, bytes |-> <<>>],
      [name |-> "c", ok |-> TRUE, bytes |-> <<255, 0, 1>>],
      [name |-> "m", ok |-> FALSE, bytes |-> <<>>] }

\* let build_hasher = Murmur3BuildHasher: a 64-bit digest
Murmur3BuildHasher == "wide"

\* the (LZDict, String) pushed for a path
FileRecord(f) ==
    [dict |-> from_bytes_stream(LitStream(f.bytes), Murmur3BuildHasher), name |-> f.name]

\* a reduce that appends the left buffer to the right one
HashReduceSwapped(v, results) == results \o v

\* the try_reduce closure: v.append(&mut results); Ok(v)
HashReduceOp(v, results) == v \o results

HashStart ==
    /\ hPaths \in SeqsUpTo(FileSample, MaxPaths)
    /\ hWriter \in BOOLEAN
    /\ hSegs = <<Piece(1, Len(hPaths))>>
    /\ hPc = "run"
    /\ hResult = Err("none")
    /\ hOut = <<>>

\* par_iter(): a piece that has not started is split in two
HashSplit ==
    /\ hPc = "run"
    /\ \E k \in 1..Len(hSegs) :
          /\ Unstarted(hSegs[k])
          /\ \E m \in hSegs[k].lo..(hSegs[k].hi - 1) : hSegs' = SplitPiece(hSegs, k, m)
    /\ UNCHANGED <<hPaths, hWriter, hPc, hResult, hOut>>
    /\ UNCHANGED notH

\* the try_fold closure on the next path of a piece: File::open(r)? ends
\* the piece with the error
HashFold ==
    /\ hPc = "run"
    /\ \E k \in 1..Len(hSegs) :
          LET sg == hSegs[k]
              f == hPaths[sg.next]
          IN  /\ ~Complete(sg)
              /\ hSegs' = [hSegs EXCEPT ![k] =
                              IF f.ok
                              THEN [sg EXCEPT !.next = sg.next + 1,
                                              !.v = Append(sg.v, FileRecord(f))]
                              ELSE [sg EXCEPT !.next = sg.hi + 1, !.v = <<>>, !.err = TRUE]]
    /\ UNCHANGED <<hPaths, hWriter, hPc, hResult, hOut>>
    /\ UNCHANGED notH

\* try_fold stops taking items once another piece has failed
HashStop ==
    /\ hPc = "run"
    /\ \E k \in 1..Len(hSegs) :
          /\ ~Complete(hSegs[k])
          /\ \E n \in 1..Len(hSegs) : hSegs[n].err
          /\ hSegs' = [hSegs EXCEPT ![k].next = hSegs[k].hi + 1]
    /\ UNCHANGED <<hPaths, hWriter, hPc, hResult, hOut>>
    /\ UNCHANGED notH

\* the try_reduce closure on two adjacent finished pieces; an Err on either
\* side is the result
HashReduce ==
    /\ hPc = "run"
    /\ \E k \in 1..(Len(hSegs) - 1) :
          LET l == hSegs[k]
              r == hSegs[k + 1]
          IN  /\ Complete(l) /\ Complete(r)
              /\ hSegs' = ReplacePiece(hSegs, k, 2,
                              <<[lo |-> l.lo, hi |-> r.hi, next |-> r.hi + 1,
                                 v |-> IF l.err \/ r.err THEN <<>> ELSE HashReduceOp(l.v, r.v),
                                 err |-> l.err \/ r.err,
                                 parts |-> l.parts + r.parts]>>)
    /\ UNCHANGED <<hPaths, hWriter, hPc, hResult, hOut>>
    /\ UNCHANGED notH

\* the "lzjd:{}:{}\n" lines written for the records
DigestLines(recs) ==
    [k \in 1..Len(recs) |-> [name |-> recs[k].name, payload |-> to_string(recs[k].dict)]]

\* let dicts = dicts?; the lines are written when a writer was passed
HashReturn ==
    /\ hPc = "run"
    /\ Len(hSegs) = 1 /\ Complete(hSegs[1])
    /\ IF hSegs[1].err
       THEN /\ hResult' = Err("Io")
            /\ hOut' = hOut
       ELSE /\ hResult' = Ok(hSegs[1].v)
            /\ hOut' = IF hWriter THEN DigestLines(hSegs[1].v) ELSE hOut
    /\ hPc' = "done"
    /\ UNCHANGED <<hPaths, hWriter, hSegs>>
    /\ UNCHANGED notH

HashNext ==
    \/ HashSplit
    \/ HashFold
    \/ HashStop
    \/ HashReduce
    \/ HashReturn

-----------------------------------------------------------------------------
(* The digest file reader of the command line tool: read_hashes_from_file. *)
(* A line is a sequence of byte values; indices of the source are 0-based. *)

\* longest digest file, in lines
MaxLines == 2

Colon == 58

\* char::is_whitespace on the ASCII range
IsSpace(c) == c \in {9, 10, 11, 12, 13, 32}

\* str::trim
RECURSIVE TrimStart(_)
TrimStart(line) ==
    IF Len(line) > 0 /\ IsSpace(Head(line)) THEN TrimStart(Tail(line)) ELSE line

RECURSIVE TrimEnd(_)
TrimEnd(line) ==
    IF Len(line) > 0 /\ IsSpace(line[Len(line)])
    THEN TrimEnd(SubSeq(line, 1, Len(line) - 1))
    ELSE line

Trim(line) == TrimEnd(TrimStart(line))

\* line.rfind(':'): the 0-based index of the last colon, -1 for None
RFind(line, c) ==
    IF \E k \in 1..Len(line) : line[k] = c
    THEN (CHOOSE k \in 1..Len(line) :
              line[k] = c /\ \A m \in (k + 1)..Len(line) : line[m] # c) - 1
    ELSE -1

\* &line[from..to], 0-based, to exclusive
Slice(line, from, to) == SubSeq(line, from + 1, to)

\* BufReader::lines yields Err for a line that is no UTF-8 (the model's
\* lines are ASCII or hold the byte 255)
ValidUtf8(line) == \A k \in 1..Len(line) : line[k] < 128

\* the body of the try_fold closure for one line
ParseLine(raw) ==
    LET line == Trim(raw)
        colon_index == RFind(line, Colon)
    IN  IF ~ValidUtf8(raw) THEN [kind |-> "err", err |-> "Io"]
        ELSE IF Len(line) = 0 THEN [kind |-> "blank"]
        ELSE IF colon_index > 5
        THEN LET file_name == Slice(line, 5, colon_index)
                 b64 == Slice(line, colon_index + 1, Len(line))
                 d == from_base64_string(b64)
             IN  IF d.ok
                 THEN [kind |-> "rec", rec |-> [dict |-> d.entries, name |-> file_name]]
                 ELSE [kind |-> "err", err |-> d.err]
        ELSE [kind |-> "err", err |-> "Could not parse line"]

\* "lzjd:"
Tag == <<108, 122, 106, 100, 58>>

\* lines a digest file can hold: records as hash_files writes them, blank
\* lines, and damaged lines
LineSample ==
    { Tag \o <<97, 58>> \o to_string(<<1>>),            \* lzjd:a:AQAAAAAAAAA=
      <<32>> \o Tag \o <<98, 58>> \o <<32>>,            \* " lzjd:b: ", empty sketch
      Tag \o <<97, 58, 98, 58>> \o to_string(<<-2>>),   \* lzjd:a:b:/v////////8=
      <<>>,
      <<32, 9>>,
      <<97, 98, 99, 100, 58, 97, 58>> \o to_string(<<1>>), \* abcd:a:AQAAAAAAAAA=
      <<113, 113, 113, 113, 113, 113, 58>>,             \* qqqqqq:
      Tag \o <<97>>,                                    \* lzjd:a
      <<108, 122, 106, 100, 97>>,                       \* lzjda
      Tag \o <<58>> \o to_string(<<1>>),                \* lzjd::AQAAAAAAAAA=
      Tag \o <<97, 58, 33>>,                            \* lzjd:a:!
      Tag \o <<97, 58, 255>> }                          \* a byte that is no UTF-8

DigestFiles == SeqsUpTo(LineSample, MaxLines)

IdleRead ==
    /\ rOpens = FALSE
    /\ rLines = <<>>
    /\ rIdx = 0
    /\ rV = <<>>
    /\ rPc = "idle"
    /\ rResult = Err("none")

ReadStart ==
    /\ rOpens \in BOOLEAN
    /\ rLines \in DigestFiles
    /\ (~rOpens => rLines = <<>>)
    /\ rIdx = 0
    /\ rV = <<>>
    /\ rPc = "open"
    /\ rResult = Err("none")

\* let file_handle = File::open(path)?;
ReadOpen ==
    /\ rPc = "open"
    /\ IF rOpens
       THEN rPc' = "fold" /\ rResult' = rResult
       ELSE rPc' = "done" /\ rResult' = Err("Io")
    /\ UNCHANGED <<rOpens, rLines, rIdx, rV>>
    /\ UNCHANGED notR

\* one call of the try_fold closure: a blank line leaves v, a record is
\* pushed, an error ends the fold and is returned
ReadLine ==
    /\ rPc = "fold"
    /\ rIdx < Len(rLines)
    /\ LET p == ParseLine(rLines[rIdx + 1])
       IN  /\ rIdx' = rIdx + 1
           /\ rV' = IF p.kind = "rec" THEN Append(rV, p.rec) ELSE rV
           /\ IF p.kind = "err"
              THEN rPc' = "done" /\ rResult' = Err(p.err)
              ELSE rPc' = rPc /\ rResult' = rResult
    /\ UNCHANGED <<rOpens, rLines>>
    /\ UNCHANGED notR

\* the fold is over: Ok(v)
ReadReturn ==
    /\ rPc = "fold"
    /\ rIdx = Len(rLines)
    /\ rResult' = Ok(rV)
    /\ rPc' = "done"
    /\ UNCHANGED <<rOpens, rLines, rIdx, rV>>
    /\ UNCHANGED notR

ReadNext ==
    \/ ReadOpen
    \/ ReadLine
    \/ ReadReturn

-----------------------------------------------------------------------------
(* The conversion impl From<Vec<i64>> for LZDict.  A vector is either       *)
(* literal or generated (long enough for truncate to cut it).               *)

\* longest literal vector
MaxVecLen == 3
\* length of the generated vector
LongVecLen == 1030

VecVals == {-1, 0, 1, 2}

LitVec(items) == [gen |-> FALSE, len |-> Len(items), items |-> items]
GenVec == [gen |-> TRUE, len |-> LongVecLen, items |-> <<>>]

\* the p-th item of the generated vector: pairwise distinct, unsorted, of
\* both signs
GenItem(p) == ((p * 7) % 1031) - 3

VecLen(v) == v.len
VecAt(v, p) == IF v.gen THEN GenItem(p) ELSE v.items[p]

Vecs == {LitVec(s) : s \in SeqsUpTo(VecVals, MaxVecLen)} \cup {GenVec}

\* number of occurrences of x in the vector
Count(v, x) == Cardinality({p \in 1..VecLen(v) : VecAt(v, p) = x})

\* the occurrences of the values lo..hi, in ascending order
RECURSIVE SortRange(_, _, _)
SortRange(v, lo, hi) ==
    IF lo > hi THEN <<>>
    ELSE IF lo = hi THEN [k \in 1..Count(v, lo) |-> lo]
    ELSE LET mid == lo + (hi - lo) \div 2
         IN  SortRange(v, lo, mid) \o SortRange(v, mid + 1, hi)

\* entries.sort(): the items in ascending order, every occurrence kept
Sort(v) ==
    IF VecLen(v) = 0 THEN <<>>
    ELSE LET vals == {VecAt(v, p) : p \in 1..VecLen(v)}
             lo == CHOOSE x \in vals : \A y \in vals : x <= y
             hi == CHOOSE x \in vals : \A y \in vals : x >= y
         IN  SortRange(v, lo, hi)

\* entries.truncate(len)
Truncate(s, len) == IF Len(s) > len THEN SubSeq(s, 1, len) ELSE s

\* impl From<Vec<i64>> for LZDict
FromVec(v) == Truncate(Sort(v), SketchCap)

IdleFrom ==
    /\ fInput = LitVec(<<>>)
    /\ fPc = "idle"
    /\ fEntries = <<>>

FromStart ==
    /\ fInput \in Vecs
    /\ fPc = "call"
    /\ fEntries = <<>>

\* LZDict::from(entries)
From ==
    /\ fPc = "call"
    /\ fEntries' = FromVec(fInput)
    /\ fPc' = "done"
    /\ UNCHANGED fInput
    /\ UNCHANGED notF

FromNext == From

-----------------------------------------------------------------------------
(* Specifications *)

IdleCompare ==
    /\ cA = <<>> /\ cB = <<>>
    /\ cAllocB = "A"
    /\ cThreshold = 0
    /\ cSegs = <<>>
    /\ cEvaluated = EmptyBag
    /\ cPc = "idle"
    /\ cOut = <<>>

IdleHash ==
    /\ hPaths = <<>>
    /\ hWriter = FALSE
    /\ hSegs = <<>>
    /\ hPc = "idle"
    /\ hResult = Err("none")
    /\ hOut = <<>>

InitBuild ==
    BuildStart /\ IdleSim /\ IdleSer /\ IdleCompare /\ IdleHash /\ IdleRead /\ IdleFrom
SpecBuild == InitBuild /\ [][BuildNext]_vars

InitSim ==
    SimStart /\ IdleBuild /\ IdleSer /\ IdleCompare /\ IdleHash /\ IdleRead /\ IdleFrom
SpecSim == InitSim /\ [][SimNext]_vars

InitSer ==
    SerStart /\ IdleBuild /\ IdleSim /\ IdleCompare /\ IdleHash /\ IdleRead /\ IdleFrom
SpecSer == InitSer /\ [][SerNext]_vars

InitCompare ==
    CompareStart /\ IdleBuild /\ IdleSim /\ IdleSer /\ IdleHash /\ IdleRead /\ IdleFrom
SpecCompare == InitCompare /\ [][CompareNext]_vars

InitHashFiles ==
    HashStart /\ IdleBuild /\ IdleSim /\ IdleSer /\ IdleCompare /\ IdleRead /\ IdleFrom
SpecHashFiles == InitHashFiles /\ [][HashNext]_vars

InitRead ==
    ReadStart /\ IdleBuild /\ IdleSim /\ IdleSer /\ IdleCompare /\ IdleHash /\ IdleFrom
SpecRead == InitRead /\ [][ReadNext]_vars

InitFrom ==
    FromStart /\ IdleBuild /\ IdleSim /\ IdleSer /\ IdleCompare /\ IdleHash /\ IdleRead
SpecFrom == InitFrom /\ [][FromNext]_vars

-----------------------------------------------------------------------------
(* Properties *)

Range(s) == {s[k] : k \in 1..Len(s)}

NoDuplicates(s) == Cardinality(Range(s)) = Len(s)

BuildReturned == bPc \in {"done", "dist"}

\* C1: for a non-empty stream, the sketch either builder returns has at most
\* 1024 entries, is strictly ascending and holds no value twice; the working
\* sketch of the LZ78 builder has these properties after every phrase.
C1_SketchInvariant ==
    StreamLen(bStream) > 0 =>
        /\ BuildReturned =>
              /\ Len(entries) <= 1024
              /\ StrictlyAscending(entries)
              /\ NoDuplicates(entries)
        /\ bAlgo = "lz78" =>
              /\ Len(hashes) <= 1024
              /\ StrictlyAscending(hashes)
              /\ NoDuplicates(hashes)

\* the LZ78 builder has returned a full sketch of a stream with more phrases
\* than the sketch holds
C1_Witness ==
    /\ bAlgo = "lz78" /\ bPc = "done"
    /\ StreamLen(bStream) > 0
    /\ Len(dict) - 1 > 1024
    /\ Len(entries) = 1024

\* C2: for strictly ascending sketches a and b, not both empty,
\* intersection_len is the number of common values and the similarity is
\* |A n B| / (len(a) + len(b) - |A n B|): 0 (distance 1) without a common
\* value, 1 when a = b.
C2_Jaccard ==
    (/\ sPc = "done"
     /\ StrictlyAscending(sA) /\ StrictlyAscending(sB)
     /\ ~(sA = <<>> /\ sB = <<>>))
    => LET common == Cardinality(Range(sA) \cap Range(sB))
       IN  /\ sInter = common
           /\ FloatEq(sSim, Ratio(common, Len(sA) + Len(sB) - common))
           /\ (common = 0 => FloatEq(sSim, Zero) /\ FloatEq(sDistAB, One))
           /\ (sA = sB => FloatEq(sSim, One) /\ FloatEq(sDistAB, Zero))

\* two ascending sketches of different lengths that share two values
C2_Witness ==
    /\ sPc = "done"
    /\ StrictlyAscending(sA) /\ StrictlyAscending(sB)
    /\ Len(sA) = 3 /\ Len(sB) = 2
    /\ sInter = 2
    /\ sSim = Ratio(2, 3)

\* C3: dist is symmetric: for all sketches d1, d2 the value of d1.dist(d2)
\* equals the value of d2.dist(d1).
C3_DistSymmetric == sPc = "done" => FloatEq(sDistAB, sDistBA)

\* off the NaN of two empty sketches the two distances are equal (this is
\* what is left of C3 once the empty/empty case is set aside)
DistSymmetricOffNaN ==
    (sPc = "done" /\ ~(sA = <<>> /\ sB = <<>>)) => FloatEq(sDistAB, sDistBA)

\* C4: two LZ78 sketches of the same non-empty stream, built with the same
\* hasher factory, have distance exactly 0.
C4_SelfDistZero == (bPc = "dist" /\ StreamLen(bStream) > 0) => FloatEq(bDist, Zero)

\* C5: from_base64_string(d.to_string()) succeeds and returns d's entries in
\* d's order.
C5_RoundTrip ==
    (zPc = "done" /\ zOrigin = "dict") => (zResult.ok /\ zResult.entries = zDict)

\* a sketch with a negative and a two-byte value, out of order, came back
C5_Witness ==
    /\ zPc = "done" /\ zOrigin = "dict"
    /\ zDict = <<300, -2>>
    /\ zResult.ok

\* C6: from_base64_string returns an error whenever the decoded payload's
\* length is not a multiple of 8.
C6_RaggedPayloadRejected ==
    (/\ zPc = "done"
     /\ B64Decode(zText).ok
     /\ Len(B64Decode(zText).bytes) % 8 # 0)
    => ~zResult.ok

\* C7: the similarity of two empty sketches is defined and equals 0.
C7_EmptySimilarityZero ==
    (sPc \in {"sim", "done"} /\ sA = <<>> /\ sB = <<>>) => FloatEq(sSim, Zero)

\* the index pairs compare is to evaluate: above the diagonal for one
\* collection compared with itself, the cross product otherwise
ClaimedPairs ==
    IF cAllocB = "A"
    THEN {<<i, j>> \in (1..Len(cA)) \X (1..Len(cA)) : i < j}
    ELSE (1..Len(cA)) \X (1..Len(cB))

\* C8: compare evaluates every pair (i, j), i < j, exactly once when dicts_a
\* and dicts_b are the same collection, and every pair of dicts_a x dicts_b
\* exactly once when they are different collections, also equal ones.
C8_EvaluatedPairs ==
    /\ \A p \in BagToSet(cEvaluated) : p \in ClaimedPairs /\ CopiesIn(p, cEvaluated) = 1
    /\ cPc = "done" => BagToSet(cEvaluated) = ClaimedPairs

\* two collections of their own with equal elements were compared in full
C8_Witness ==
    /\ cPc = "done"
    /\ cAllocB = "B" /\ cB = cA /\ Len(cA) = 2
    /\ BagCardinality(cEvaluated) = 4

Occurrences(s, r) == Cardinality({k \in 1..Len(s) : s[k] = r})

\* C9: however the rows are split into pieces and in whatever order the
\* buffers are reduced, the merged result holds the record of each evaluated
\* pair once when its rounded similarity reaches the threshold, and not at
\* all otherwise.
C9_MergedResult ==
    cPc = "done" =>
        LET kept == {p \in BagToSet(cEvaluated) : PairRecord(p[1], p[2])[3] >= cThreshold}
        IN  /\ Len(cOut) = Cardinality(kept)
            /\ \A r \in Range(cOut) \cup {PairRecord(p[1], p[2]) : p \in kept} :
                  Occurrences(cOut, r) =
                      Cardinality({p \in kept : PairRecord(p[1], p[2]) = r})

\* three rows folded as three pieces, with a pair kept and a pair left out
C9_Witness ==
    /\ cPc = "done"
    /\ Len(cA) = 3 /\ cSegs[1].parts = 3
    /\ cThreshold = 51
    /\ Len(cOut) > 0
    /\ Len(cOut) < BagCardinality(cEvaluated)

HasShape(line) ==
    /\ Len(line) > Len(Tag)
    /\ SubSeq(line, 1, Len(Tag)) = Tag
    /\ \E k \in (Len(Tag) + 1)..Len(line) : line[k] = Colon

\* a line that is neither blank nor of the shape
Malformed(raw) == Len(Trim(raw)) > 0 /\ ~HasShape(Trim(raw))

\* C11: read_hashes_from_file returns an error, and so no record of the
\* file, whenever a line that is not blank does not have the shape
\* lzjd:<name>:<payload>, also when only its first five characters differ
\* from "lzjd:"
C11_MalformedLineRejected ==
    (rPc = "done" /\ rOpens /\ \E k \in 1..Len(rLines) : Malformed(rLines[k]))
        => ~rResult.ok

\* C15: every LZDict that LZDict::from returns has at most 1024 entries, in
\* strictly ascending order, no value twice
C15_FromInvariant ==
    fPc = "done" =>
        /\ Len(fEntries) <= SketchCap
        /\ StrictlyAscending(fEntries)
        /\ NoDuplicates(fEntries)

\* on a vector without a repeated value the conversion does establish the
\* invariants, and keeps the smallest values (what is left of C15 once
\* repeated values are set aside)
FromInvariantOnDistinct ==
    (fPc = "done" /\ \A p, q \in 1..VecLen(fInput) :
                        p # q => VecAt(fInput, p) # VecAt(fInput, q))
        => /\ Len(fEntries) = Min(VecLen(fInput), SketchCap)
           /\ StrictlyAscending(fEntries)
           /\ \A p \in 1..VecLen(fInput) :
                  Contains(fEntries, VecAt(fInput, p))
                      \/ (Len(fEntries) = SketchCap
                              /\ VecAt(fInput, p) > fEntries[Len(fEntries)])

\* the byte string of the phrase at an index of the table, root to leaf
RECURSIVE PhraseBytes(_, _)
PhraseBytes(d, index) ==
    IF index = 0 THEN <<>>
    ELSE Append(PhraseBytes(d, d[index + 1][1]), d[index + 1][2])

\* the phrases of a table, the root left out, in the order they were pushed
TablePhrases(d) == [k \in 1..(Len(d) - 1) |-> PhraseBytes(d, k)]

\* the canonical LZ78 factorization of bytes[p..]: cur is the longest
\* recorded phrase matched so far (empty at the root), table the factors
\* recorded so far
RECURSIVE CanonicalLZ78(_, _, _, _)
CanonicalLZ78(bytes, p, cur, table) ==
    IF p > Len(bytes) THEN table
    ELSE LET ext == Append(cur, bytes[p])
         IN  IF Contains(table, ext)
             THEN CanonicalLZ78(bytes, p + 1, ext, table)
             ELSE CanonicalLZ78(bytes, p + 1, <<>>, Append(table, ext))

\* the digest of a byte string written to a fresh hasher
RECURSIVE WriteAll(_, _)
WriteAll(h, bytes) ==
    IF Len(bytes) = 0 THEN h ELSE WriteAll(WriteU8(h, Head(bytes)), Tail(bytes))

PhraseHash(bytes, hk) == HashI64(WriteAll(NewHasher(hk), bytes))

\* the min(1024, n) smallest of the n distinct digests of the phrases
SmallestHashes(phrases, hk) ==
    Take(SortSet({PhraseHash(phrases[k], hk) : k \in 1..Len(phrases)}), SketchCap)

Lz78Returned == bAlgo = "lz78" /\ bPc \in {"done", "dist"} /\ bStream.seed = 0

\* C12: for every byte stream over all byte values, the phrase table of
\* from_bytes_stream_lz78 is the canonical LZ78 factorization of the stream
\* and the returned sketch holds the min(1024, n) smallest of the n distinct
\* digests of its phrases, each hashed root to leaf with a fresh hasher
C12_CanonicalLZ78 ==
    Lz78Returned =>
        LET canon == CanonicalLZ78(bStream.bytes, 1, <<>>, <<>>)
        IN  /\ TablePhrases(dict) = canon
            /\ entries = SmallestHashes(canon, bHk)

\* on a stream without a zero byte the table is the canonical factorization
\* and the sketch is the one of its phrases (what is left of C12 once the
\* zero byte is set aside)
CanonicalLZ78OffZero ==
    (Lz78Returned /\ \A p \in 1..Len(bStream.bytes) : bStream.bytes[p] # 0) =>
        LET canon == CanonicalLZ78(bStream.bytes, 1, <<>>, <<>>)
        IN  /\ TablePhrases(dict) = canon
            /\ entries = SmallestHashes(canon, bHk)

\* on every stream the sketch is the one of the phrases of the table that
\* was built
SketchOfTable ==
    Lz78Returned => entries = SmallestHashes(TablePhrases(dict), bHk)

\* the single-pass algorithm with a sketch bounded by K, one byte: a
\* candidate that is in the sketch leaves the hasher accumulating; any other
\* candidate is inserted, inserted for the maximum, or discarded, and the
\* hasher is reset
SinglePassStep(st, byte, hk, K) ==
    LET h2 == WriteU8(st.hasher, byte)
        candidate == HashI64(h2)
        hs == st.sketch
    IN  IF Contains(hs, candidate) THEN [sketch |-> hs, hasher |-> h2]
        ELSE [sketch |-> IF Len(hs) < K THEN VecInsert(hs, InsertAt(hs, candidate), candidate)
                         ELSE IF candidate < hs[Len(hs)]
                         THEN VecInsert(VecPop(hs), InsertAt(hs, candidate), candidate)
                         ELSE hs,
              hasher |-> NewHasher(hk)]

\* the state of the single-pass algorithm after the items lo..hi of the
\* stream, started in st (the sketch never grows beyond K)
RECURSIVE SinglePassRun(_, _, _, _, _, _)
SinglePassRun(s, lo, hi, st, hk, K) ==
    IF lo > hi THEN st
    ELSE IF lo = hi THEN SinglePassStep(st, StreamAt(s, lo), hk, K)
    ELSE LET mid == lo + (hi - lo) \div 2
             left == SinglePassRun(s, lo, mid, st, hk, K)
         IN  IF Len(left.sketch) <= K
             THEN SinglePassRun(s, mid + 1, hi, left, hk, K)
             ELSE left

SinglePass(s, hk, K) ==
    SinglePassRun(s, 1, StreamLen(s), [sketch |-> <<>>, hasher |-> NewHasher(hk)], hk, K).sketch

StreamReturned == bAlgo = "stream" /\ bPc = "done"

\* C13: from_bytes_stream resets the live hasher after every byte whose
\* candidate is not in the current bounded sketch and only then, so the
\* sketch it returns is the one of the single-pass algorithm run with the
\* same bound, also when the stream yields more candidates than the bound
C13_SinglePassEquivalent ==
    StreamReturned => entries = SinglePass(bStream, bHk, StreamTake)

\* as long as the stream yields no more distinct candidates than the bound,
\* the returned sketch is the one of the single-pass algorithm (what is left
\* of C13 below the bound)
SinglePassBelowBound ==
    (StreamReturned /\ Cardinality(hset) <= StreamTake)
        => entries = SinglePass(bStream, bHk, StreamTake)

\* C14: from_bytes_stream returns exactly min(n, 1024) entries for a stream
\* that yields n distinct new candidate hashes
C14_KeepsUpTo1024 ==
    StreamReturned => Len(entries) = Min(Cardinality(hset), SketchCap)

\* the number of entries from_bytes_stream does return
KeepsUpToStreamTake ==
    StreamReturned => Len(entries) = Min(Cardinality(hset), StreamTake)

====
